---------------------------- MODULE Spec2Model ----------------------------
(***************************************************************************)
(* Textual (JSON / YAML) and binary codecs of go-eth2-client records.      *)
(*                                                                         *)
(* BeaconBlock (spec/altair/beaconblock.go) is modelled from its source.   *)
(* DepositMessage and SyncAggregate are modelled from their test tables    *)
(* and the specification, their codec files not being part of the tree.    *)
(*                                                                         *)
(* Text is a sequence of one-character strings.  A uint64 is four 16-bit   *)
(* limbs, least significant first, so that the full 64-bit width and its   *)
(* overflow are kept.  A byte is a number in 0..255.                        *)
(***************************************************************************)
EXTENDS Integers, Sequences, FiniteSets, TLC

(***************************************************************************)
(* Generic helpers                                                         *)
(***************************************************************************)
Nil == [nil |-> TRUE]

Rep(s, n) == [i \in 1..(n * Len(s)) |-> s[((i - 1) % Len(s)) + 1]]

RECURSIVE IndexIn(_, _, _)
IndexIn(c, s, i) ==
  IF i > Len(s) THEN 0
  ELSE IF s[i] = c THEN i
  ELSE IndexIn(c, s, i + 1)

Range(s) == {s[i] : i \in 1..Len(s)}

(***************************************************************************)
(* uint64 arithmetic on 16-bit limbs                                       *)
(***************************************************************************)
LimbBase == 256 * 256

U64Zero == <<0, 0, 0, 0>>

U64MaxVal == <<LimbBase - 1, LimbBase - 1, LimbBase - 1, LimbBase - 1>>

\* n * 10 in 64 bits; carry > 0 exactly when n >= cutoff = maxUint64/10 + 1
Mul10(n) ==
  LET t1 == n[1] * 10
      t2 == n[2] * 10 + (t1 \div LimbBase)
      t3 == n[3] * 10 + (t2 \div LimbBase)
      t4 == n[4] * 10 + (t3 \div LimbBase)
  IN [n |-> <<t1 % LimbBase, t2 % LimbBase, t3 % LimbBase, t4 % LimbBase>>,
      carry |-> t4 \div LimbBase]

\* n + d in 64 bits; carry > 0 exactly when the sum wraps (n1 < n)
AddSmall(n, d) ==
  LET t1 == n[1] + d
      t2 == n[2] + (t1 \div LimbBase)
      t3 == n[3] + (t2 \div LimbBase)
      t4 == n[4] + (t3 \div LimbBase)
  IN [n |-> <<t1 % LimbBase, t2 % LimbBase, t3 % LimbBase, t4 % LimbBase>>,
      carry |-> t4 \div LimbBase]

DivMod10(n) ==
  LET c4 == n[4]
      c3 == (c4 % 10) * LimbBase + n[3]
      c2 == (c3 % 10) * LimbBase + n[2]
      c1 == (c2 % 10) * LimbBase + n[1]
  IN [q |-> <<c1 \div 10, c2 \div 10, c3 \div 10, c4 \div 10>>, r |-> c1 % 10]

(***************************************************************************)
(* strconv.ParseUint(s, 10, 64) and fmt's %d of a uint64                   *)
(***************************************************************************)
DecDigits == <<"0", "1", "2", "3", "4", "5", "6", "7", "8", "9">>

ErrSyntax == "invalid syntax"

ErrRange == "value out of range"

NumError(s, e) == [lib |-> "strconv.ParseUint", arg |-> s, err |-> e]

RECURSIVE ParseUintLoop(_, _, _)
ParseUintLoop(s, i, n) ==
  IF i > Len(s) THEN [n |-> n, err |-> Nil]
  ELSE
    LET d == IndexIn(s[i], DecDigits, 1) - 1
        m == Mul10(n)
        n1 == AddSmall(m.n, d)
    IN IF d < 0 THEN [n |-> U64Zero, err |-> NumError(s, ErrSyntax)]
       ELSE IF m.carry > 0 THEN [n |-> U64MaxVal, err |-> NumError(s, ErrRange)]
       ELSE IF n1.carry > 0 THEN [n |-> U64MaxVal, err |-> NumError(s, ErrRange)]
       ELSE ParseUintLoop(s, i + 1, n1.n)

ParseUint(s) ==
  IF s = <<>> THEN [n |-> U64Zero, err |-> NumError(s, ErrSyntax)]
  ELSE ParseUintLoop(s, 1, U64Zero)

RECURSIVE FormatUintLoop(_, _)
FormatUintLoop(n, acc) ==
  LET dm == DivMod10(n)
      acc1 == <<DecDigits[dm.r + 1]>> \o acc
  IN IF dm.q = U64Zero THEN acc1 ELSE FormatUintLoop(dm.q, acc1)

\* fmt.Sprintf("%d", n)
FormatUint(n) == FormatUintLoop(n, <<>>)

(***************************************************************************)
(* encoding/hex, strings.TrimPrefix and fmt's %#x of a byte array          *)
(***************************************************************************)
HexLower == <<"0", "1", "2", "3", "4", "5", "6", "7", "8", "9",
              "a", "b", "c", "d", "e", "f">>

HexUpper == <<"0", "1", "2", "3", "4", "5", "6", "7", "8", "9",
              "A", "B", "C", "D", "E", "F">>

\* reverseHexTable: the nibble of c, or -1 for a character that is no hex digit
FromHexChar(c) ==
  IF IndexIn(c, HexLower, 1) > 0 THEN IndexIn(c, HexLower, 1) - 1
  ELSE IndexIn(c, HexUpper, 1) - 1

ErrLength == [lib |-> "encoding/hex", err |-> "odd length hex string"]

InvalidByteError(c) == [lib |-> "encoding/hex", err |-> "invalid byte", arg |-> c]

\* hex.Decode: the pairs are decoded in order and the first character that is
\* no hex digit ends it; a last unpaired character is looked at after the pairs
HexDecodeString(s) ==
  LET bad == {k \in 1..Len(s) : FromHexChar(s[k]) < 0}
      first == CHOOSE k \in bad : \A m \in bad : k <= m
      n == IF bad = {} THEN Len(s) \div 2 ELSE (first - 1) \div 2
      bytes == [i \in 1..n |-> FromHexChar(s[2 * i - 1]) * 16 + FromHexChar(s[2 * i])]
  IN IF bad # {} THEN [bytes |-> bytes, err |-> InvalidByteError(s[first])]
     ELSE IF Len(s) % 2 = 1 THEN [bytes |-> bytes, err |-> ErrLength]
     ELSE [bytes |-> bytes, err |-> Nil]

\* strings.TrimPrefix(s, "0x")
TrimPrefix0x(s) ==
  IF Len(s) >= 2 /\ s[1] = "0" /\ s[2] = "x" THEN SubSeq(s, 3, Len(s)) ELSE s

\* fmt.Sprintf("%#x", bytes)
FormatHex(bytes) ==
  <<"0", "x">> \o
  [i \in 1..(2 * Len(bytes)) |->
     IF i % 2 = 1 THEN HexLower[(bytes[(i + 1) \div 2] \div 16) + 1]
     ELSE HexLower[(bytes[i \div 2] % 16) + 1]]

(***************************************************************************)
(* github.com/pkg/errors                                                   *)
(***************************************************************************)
\* errors.New(msg)
New(msg) == [msg |-> msg, cause |-> Nil]

\* errors.Wrap(err, msg): the message is msg + ": " + err.Error()
Wrap(err, msg) == [msg |-> msg, cause |-> err]

(***************************************************************************)
(* BeaconBlockBody: an opaque collaborator.  A body value is named by a    *)
(* string; its JSON / YAML text is a record naming the value it denotes    *)
(* and the form it is written in.                                          *)
(***************************************************************************)
NilBody == "nil"

BodyValues == {"bodyA", "bodyB"}

BodyText(v, form) == [t |-> "object", of |-> v, form |-> form]

\* BeaconBlockBody.MarshalJSON / MarshalYAML: the canonical text of the value
BodyMarshal(v) == BodyText(v, "canonical")

\* BeaconBlockBody.UnmarshalJSON / UnmarshalYAML
BodyUnmarshal(v) ==
  IF v.t = "object" /\ v.form \in {"canonical", "spaced"} /\ v.of \in BodyValues
    THEN [body |-> v.of, err |-> Nil]
    ELSE [body |-> NilBody, err |-> New("invalid body")]

(***************************************************************************)
(* BeaconBlock and its intermediate record beaconBlockJSON                 *)
(***************************************************************************)
RootLength == 32

ZeroRoot == Rep(<<0>>, RootLength)

\* var res altair.BeaconBlock
ZeroBeaconBlock ==
  [Slot |-> U64Zero, ProposerIndex |-> U64Zero, ParentRoot |-> ZeroRoot,
   StateRoot |-> ZeroRoot, Body |-> NilBody]

\* var beaconBlockJSON beaconBlockJSON
ZeroBeaconBlockJSON ==
  [Slot |-> <<>>, ProposerIndex |-> <<>>, ParentRoot |-> <<>>,
   StateRoot |-> <<>>, Body |-> NilBody]

\* the struct tags of beaconBlockJSON, in declared order
beaconBlockJSONFields ==
  << [key |-> "slot", field |-> "Slot", kind |-> "string"],
     [key |-> "proposer_index", field |-> "ProposerIndex", kind |-> "string"],
     [key |-> "parent_root", field |-> "ParentRoot", kind |-> "string"],
     [key |-> "state_root", field |-> "StateRoot", kind |-> "string"],
     [key |-> "body", field |-> "Body", kind |-> "body"] >>

\* One step of unpack: the receiver after it, its error, the checks it ran.
Step(b, err, trace) == [b |-> b, err |-> err, trace |-> trace]

\* Sequencing with early return: F runs only when st ended without error.
Then(st, F(_, _), j) ==
  IF st.err # Nil THEN st
  ELSE LET r == F(st.b, j) IN Step(r.b, r.err, st.trace \o r.trace)

\* unpackSlot reporting a bad slot without the parser's error
unpackSlotDropCause(b, j) ==
  IF j.Slot = <<>> THEN Step(b, New("slot missing"), <<"slot.missing">>)
  ELSE
    LET slot == ParseUint(j.Slot) IN
    IF slot.err # Nil
      THEN Step(b, New("invalid value for slot"), <<"slot.missing", "slot.parse">>)
      ELSE Step([b EXCEPT !.Slot = slot.n], Nil,
                <<"slot.missing", "slot.parse", "slot.assign">>)

unpackSlot(b, j) ==
  IF j.Slot = <<>> THEN Step(b, New("slot missing"), <<"slot.missing">>)
  ELSE
    LET slot == ParseUint(j.Slot) IN
    IF slot.err # Nil
      THEN Step(b, Wrap(slot.err, "invalid value for slot"),
                <<"slot.missing", "slot.parse">>)
      ELSE Step([b EXCEPT !.Slot = slot.n], Nil,
                <<"slot.missing", "slot.parse", "slot.assign">>)

\* unpackProposerIndex storing the parsed index in Slot
unpackProposerIndexIntoSlot(b, j) ==
  IF j.ProposerIndex = <<>>
    THEN Step(b, New("proposer index missing"), <<"proposer_index.missing">>)
  ELSE
    LET proposerIndex == ParseUint(j.ProposerIndex) IN
    IF proposerIndex.err # Nil
      THEN Step(b, Wrap(proposerIndex.err, "invalid value for proposer index"),
                <<"proposer_index.missing", "proposer_index.parse">>)
      ELSE Step([b EXCEPT !.Slot = proposerIndex.n], Nil,
                <<"proposer_index.missing", "proposer_index.parse",
                  "proposer_index.assign">>)

unpackProposerIndex(b, j) ==
  IF j.ProposerIndex = <<>>
    THEN Step(b, New("proposer index missing"), <<"proposer_index.missing">>)
  ELSE
    LET proposerIndex == ParseUint(j.ProposerIndex) IN
    IF proposerIndex.err # Nil
      THEN Step(b, Wrap(proposerIndex.err, "invalid value for proposer index"),
                <<"proposer_index.missing", "proposer_index.parse">>)
      ELSE Step([b EXCEPT !.ProposerIndex = proposerIndex.n], Nil,
                <<"proposer_index.missing", "proposer_index.parse",
                  "proposer_index.assign">>)

\* unpackParentRoot rejecting only what is longer than the root
unpackParentRootAtMost(b, j) ==
  IF j.ParentRoot = <<>>
    THEN Step(b, New("parent root missing"), <<"parent_root.missing">>)
  ELSE
    LET parentRoot == HexDecodeString(TrimPrefix0x(j.ParentRoot)) IN
    IF parentRoot.err # Nil
      THEN Step(b, Wrap(parentRoot.err, "invalid value for parent root"),
                <<"parent_root.missing", "parent_root.parse">>)
    ELSE IF Len(parentRoot.bytes) > RootLength
      THEN Step(b, New("incorrect length for parent root"),
                <<"parent_root.missing", "parent_root.parse", "parent_root.length">>)
    ELSE Step([b EXCEPT !.ParentRoot =
                 [i \in 1..RootLength |->
                    IF i <= Len(parentRoot.bytes) THEN parentRoot.bytes[i]
                    ELSE b.ParentRoot[i]]], Nil,
              <<"parent_root.missing", "parent_root.parse", "parent_root.length",
                "parent_root.assign">>)

unpackParentRoot(b, j) ==
  IF j.ParentRoot = <<>>
    THEN Step(b, New("parent root missing"), <<"parent_root.missing">>)
  ELSE
    LET parentRoot == HexDecodeString(TrimPrefix0x(j.ParentRoot)) IN
    IF parentRoot.err # Nil
      THEN Step(b, Wrap(parentRoot.err, "invalid value for parent root"),
                <<"parent_root.missing", "parent_root.parse">>)
    ELSE IF Len(parentRoot.bytes) # RootLength
      THEN Step(b, New("incorrect length for parent root"),
                <<"parent_root.missing", "parent_root.parse", "parent_root.length">>)
    ELSE Step([b EXCEPT !.ParentRoot = parentRoot.bytes], Nil,
              <<"parent_root.missing", "parent_root.parse", "parent_root.length",
                "parent_root.assign">>)

unpackStateRoot(b, j) ==
  IF j.StateRoot = <<>>
    THEN Step(b, New("state root missing"), <<"state_root.missing">>)
  ELSE
    LET stateRoot == HexDecodeString(TrimPrefix0x(j.StateRoot)) IN
    IF stateRoot.err # Nil
      THEN Step(b, Wrap(stateRoot.err, "invalid value for state root"),
                <<"state_root.missing", "state_root.parse">>)
    ELSE IF Len(stateRoot.bytes) # RootLength
      THEN Step(b, New("incorrect length for state root"),
                <<"state_root.missing", "state_root.parse", "state_root.length">>)
    ELSE Step([b EXCEPT !.StateRoot = stateRoot.bytes], Nil,
              <<"state_root.missing", "state_root.parse", "state_root.length",
                "state_root.assign">>)

\* unpackBody without its nil check
unpackBodyNoCheck(b, j) ==
  Step([b EXCEPT !.Body = j.Body], Nil, <<"body.missing", "body.assign">>)

unpackBody(b, j) ==
  IF j.Body = NilBody THEN Step(b, New("body missing"), <<"body.missing">>)
  ELSE Step([b EXCEPT !.Body = j.Body], Nil, <<"body.missing", "body.assign">>)

\* unpack taking the state root before the parent root
unpackStateRootFirst(b, j) ==
  Then(Then(Then(Then(unpackSlot(b, j),
                      unpackProposerIndex, j),
                 unpackStateRoot, j),
            unpackParentRoot, j),
       unpackBody, j)

\* func (b *BeaconBlock) unpack(beaconBlockJSON *beaconBlockJSON) error
unpack(b, j) ==
  Then(Then(Then(Then(unpackSlot(b, j),
                      unpackProposerIndex, j),
                 unpackParentRoot, j),
            unpackStateRoot, j),
       unpackBody, j)

(***************************************************************************)
(* JSON text and encoding/json.                                            *)
(*                                                                         *)
(* A JSON text is the empty input, an array, or an object: its members in  *)
(* the order written, and whether insignificant white space is written     *)
(* between its tokens.  A member's value is a string, a number, a boolean, *)
(* null, or the object of a body.  Two texts are the same bytes exactly    *)
(* when they are equal as such records.                                    *)
(***************************************************************************)
JStr(s) == [t |-> "string", s |-> s]

JNum(s) == [t |-> "number", s |-> s]

JBool == [t |-> "bool"]

JNull == [t |-> "null"]

Member(k, v) == [key |-> k, val |-> v]

JEmpty == [kind |-> "empty"]

JArray == [kind |-> "array"]

JObject(members, ws) == [kind |-> "object", members |-> members, ws |-> ws]

SyntaxError == [lib |-> "json", err |-> "unexpected end of JSON input"]

UnmarshalTypeError(value, field) ==
  [lib |-> "json", err |-> "cannot unmarshal", value |-> value, field |-> field]

\* strings.ToLower on the keys the inputs use
ToLower(k) ==
  CASE k = "SLOT" -> "slot"
    [] k = "PUBKEY" -> "pubkey"
    [] k = "SYNC_COMMITTEE_BITS" -> "sync_committee_bits"
    [] OTHER -> k

RECURSIVE FieldIndex(_, _, _, _)
FieldIndex(fields, k, fold, i) ==
  IF i > Len(fields) THEN 0
  ELSE IF fields[i].key = k \/ (fold /\ fields[i].key = ToLower(k)) THEN i
  ELSE FieldIndex(fields, k, fold, i + 1)

\* encoding/json: an exact match of the key is preferred to a case-insensitive one
JsonFieldOf(fields, k) ==
  IF FieldIndex(fields, k, FALSE, 1) > 0 THEN FieldIndex(fields, k, FALSE, 1)
  ELSE FieldIndex(fields, k, TRUE, 1)

\* decodeState.object: members are stored in the order written, a later
\* duplicate overwriting an earlier one; a value of the wrong kind is saved as
\* the first error and decoding goes on; a json.Unmarshaler's error ends it.
RECURSIVE JsonObjectLoop(_, _, _, _, _)
JsonObjectLoop(members, i, fields, j, saved) ==
  IF i > Len(members) THEN [j |-> j, err |-> saved]
  ELSE
    LET m == members[i]
        fi == JsonFieldOf(fields, m.key)
        f == fields[fi]
        body == BodyUnmarshal(m.val)
    IN IF fi = 0 THEN JsonObjectLoop(members, i + 1, fields, j, saved)
       ELSE IF f.kind = "string" THEN
         IF m.val.t = "string"
           THEN JsonObjectLoop(members, i + 1, fields,
                               [j EXCEPT ![f.field] = m.val.s], saved)
         ELSE IF m.val.t = "null"
           THEN JsonObjectLoop(members, i + 1, fields, j, saved)
         ELSE JsonObjectLoop(members, i + 1, fields, j,
                             IF saved = Nil
                               THEN UnmarshalTypeError(m.val.t, f.key)
                               ELSE saved)
       ELSE IF m.val.t = "null"
         THEN JsonObjectLoop(members, i + 1, fields,
                             [j EXCEPT ![f.field] = NilBody], saved)
       ELSE IF body.err # Nil THEN [j |-> j, err |-> body.err]
       ELSE JsonObjectLoop(members, i + 1, fields,
                           [j EXCEPT ![f.field] = body.body], saved)

\* json.Unmarshal(input, &j) for a struct j with the given tagged fields
JsonUnmarshalStruct(input, fields, zero) ==
  IF input.kind = "empty" THEN [j |-> zero, err |-> SyntaxError]
  ELSE IF input.kind = "array"
    THEN [j |-> zero, err |-> UnmarshalTypeError("array", "")]
  ELSE JsonObjectLoop(input.members, 1, fields, zero, Nil)

\* json.Marshal of a *BeaconBlockBody field
JsonBody(body) == IF body = NilBody THEN JNull ELSE BodyMarshal(body)

(***************************************************************************)
(* BeaconBlock: JSON                                                       *)
(***************************************************************************)
\* MarshalJSON with the slot written as a JSON number
MarshalJSONBareSlot(b) ==
  JObject(<< Member("slot", JNum(FormatUint(b.Slot))),
             Member("proposer_index", JStr(FormatUint(b.ProposerIndex))),
             Member("parent_root", JStr(FormatHex(b.ParentRoot))),
             Member("state_root", JStr(FormatHex(b.StateRoot))),
             Member("body", JsonBody(b.Body)) >>, FALSE)

\* MarshalJSON with the two roots exchanged
MarshalJSONSwapped(b) ==
  JObject(<< Member("slot", JStr(FormatUint(b.Slot))),
             Member("proposer_index", JStr(FormatUint(b.ProposerIndex))),
             Member("parent_root", JStr(FormatHex(b.StateRoot))),
             Member("state_root", JStr(FormatHex(b.ParentRoot))),
             Member("body", JsonBody(b.Body)) >>, FALSE)

\* func (b *BeaconBlock) MarshalJSON() ([]byte, error)
MarshalJSON(b) ==
  JObject(<< Member("slot", JStr(FormatUint(b.Slot))),
             Member("proposer_index", JStr(FormatUint(b.ProposerIndex))),
             Member("parent_root", JStr(FormatHex(b.ParentRoot))),
             Member("state_root", JStr(FormatHex(b.StateRoot))),
             Member("body", JsonBody(b.Body)) >>, FALSE)

\* UnmarshalJSON unpacking what was read before it reports the JSON error
UnmarshalJSONUnpackFirst(b, input) ==
  LET r == JsonUnmarshalStruct(input, beaconBlockJSONFields, ZeroBeaconBlockJSON)
      u == unpack(b, r.j)
  IN IF r.err # Nil THEN Step(u.b, Wrap(r.err, "invalid JSON"), u.trace)
     ELSE u

\* func (b *BeaconBlock) UnmarshalJSON(input []byte) error
UnmarshalJSON(b, input) ==
  LET r == JsonUnmarshalStruct(input, beaconBlockJSONFields, ZeroBeaconBlockJSON)
  IN IF r.err # Nil THEN Step(b, Wrap(r.err, "invalid JSON"), <<>>)
     ELSE unpack(b, r.j)

(***************************************************************************)
(* YAML text and github.com/goccy/go-yaml.                                 *)
(*                                                                         *)
(* A YAML text is a sequence or a single-line flow mapping: its members in *)
(* the order written and the number of line breaks that end it.  A scalar  *)
(* is plain (unquoted), single-quoted or double-quoted.                    *)
(***************************************************************************)
YPlain(s) == [t |-> "plain", s |-> s]

YSingle(s) == [t |-> "single", s |-> s]

YDouble(s) == [t |-> "double", s |-> s]

YNull == [t |-> "null"]

YSequence == [kind |-> "sequence"]

YFlow(members, nl) == [kind |-> "flow", members |-> members, nl |-> nl]

YamlTypeError == [lib |-> "yaml", err |-> "cannot unmarshal"]

\* the encoder's scalar for a Go string: a string that would read back as a
\* number (0x...) or that is empty is double-quoted
YamlString(s) ==
  IF s = <<>> \/ (Len(s) >= 2 /\ s[1] = "0" /\ s[2] = "x") \/ s[1] \in Range(DecDigits)
    THEN YDouble(s)
    ELSE YPlain(s)

\* the encoder's scalar for a uint64
YamlUint(n) == YPlain(FormatUint(n))

YamlBody(body) == IF body = NilBody THEN YNull ELSE BodyMarshal(body)

\* decoding into a struct: a key is matched exactly against the yaml tag, or
\* the json tag when there is none; a scalar of any style is stored in a string
\* field as its text; null leaves the field alone; unknown keys are skipped.
RECURSIVE YamlObjectLoop(_, _, _, _)
YamlObjectLoop(members, i, fields, j) ==
  IF i > Len(members) THEN [j |-> j, err |-> Nil]
  ELSE
    LET m == members[i]
        fi == FieldIndex(fields, m.key, FALSE, 1)
        f == fields[fi]
        body == BodyUnmarshal(m.val)
    IN IF fi = 0 THEN YamlObjectLoop(members, i + 1, fields, j)
       ELSE IF m.val.t = "null" THEN YamlObjectLoop(members, i + 1, fields, j)
       ELSE IF f.kind = "string" THEN
         IF m.val.t \in {"plain", "single", "double"}
           THEN YamlObjectLoop(members, i + 1, fields, [j EXCEPT ![f.field] = m.val.s])
           ELSE [j |-> j, err |-> YamlTypeError]
       ELSE IF body.err # Nil THEN [j |-> j, err |-> body.err]
       ELSE YamlObjectLoop(members, i + 1, fields, [j EXCEPT ![f.field] = body.body])

\* yaml.Unmarshal(input, &j) for a struct j with the given tagged fields
YamlUnmarshalStruct(input, fields, zero) ==
  IF input.kind = "sequence" THEN [j |-> zero, err |-> YamlTypeError]
  ELSE YamlObjectLoop(input.members, 1, fields, zero)

\* bytes.ReplaceAll(yamlBytes, []byte(`"`), []byte(`'`))
ReplaceQuotes(doc) ==
  [doc EXCEPT !.members =
     [i \in 1..Len(doc.members) |->
        IF doc.members[i].val.t = "double"
          THEN Member(doc.members[i].key, YSingle(doc.members[i].val.s))
          ELSE doc.members[i]]]

\* the encoder on the bytes a BytesMarshaler returned: they are parsed and
\* the node is printed, followed by one line break
Reemit(doc) == [doc EXCEPT !.nl = 1]

(***************************************************************************)
(* BeaconBlock: YAML                                                       *)
(***************************************************************************)
\* yaml.MarshalWithOptions(&beaconBlockYAML{...}, yaml.Flow(true))
beaconBlockYAMLBytes(b) ==
  YFlow(<< Member("slot", YamlUint(b.Slot)),
           Member("proposer_index", YamlUint(b.ProposerIndex)),
           Member("parent_root", YamlString(FormatHex(b.ParentRoot))),
           Member("state_root", YamlString(FormatHex(b.StateRoot))),
           Member("body", YamlBody(b.Body)) >>, 1)

\* MarshalYAML without the replacement of the quotes
MarshalYAMLNoReplace(b) == beaconBlockYAMLBytes(b)

\* func (b *BeaconBlock) MarshalYAML() ([]byte, error)
MarshalYAML(b) == ReplaceQuotes(beaconBlockYAMLBytes(b))

\* UnmarshalYAML with an unpack of its own, the state root taken first
UnmarshalYAMLOwnUnpack(b, input) ==
  LET r == YamlUnmarshalStruct(input, beaconBlockJSONFields, ZeroBeaconBlockJSON)
  IN IF r.err # Nil THEN Step(b, r.err, <<>>)
     ELSE unpackStateRootFirst(b, r.j)

\* func (b *BeaconBlock) UnmarshalYAML(input []byte) error
UnmarshalYAML(b, input) ==
  LET r == YamlUnmarshalStruct(input, beaconBlockJSONFields, ZeroBeaconBlockJSON)
  IN IF r.err # Nil THEN Step(b, r.err, <<>>)
     ELSE unpack(b, r.j)

\* func (b *BeaconBlock) String() string
String(b) == Reemit(MarshalYAML(b))

(***************************************************************************)
(* DepositMessage and SyncAggregate: the same scheme, with the messages    *)
(* and lengths their tests state.                                          *)
(***************************************************************************)
PublicKeyLength == 48

HashLength == 32

SyncCommitteeBitsLength == 64

SignatureLength == 96

ZeroDepositMessage ==
  [PublicKey |-> Rep(<<0>>, PublicKeyLength),
   WithdrawalCredentials |-> Rep(<<0>>, HashLength),
   Amount |-> U64Zero]

ZeroSyncAggregate ==
  [SyncCommitteeBits |-> Rep(<<0>>, SyncCommitteeBitsLength),
   SyncCommitteeSignature |-> Rep(<<0>>, SignatureLength)]

depositMessageJSONFields ==
  << [key |-> "pubkey", field |-> "PublicKey", kind |-> "string"],
     [key |-> "withdrawal_credentials", field |-> "WithdrawalCredentials",
      kind |-> "string"],
     [key |-> "amount", field |-> "Amount", kind |-> "string"] >>

syncAggregateJSONFields ==
  << [key |-> "sync_committee_bits", field |-> "SyncCommitteeBits", kind |-> "string"],
     [key |-> "sync_committee_signature", field |-> "SyncCommitteeSignature",
      kind |-> "string"] >>

ZeroDepositMessageJSON ==
  [PublicKey |-> <<>>, WithdrawalCredentials |-> <<>>, Amount |-> <<>>]

ZeroSyncAggregateJSON == [SyncCommitteeBits |-> <<>>, SyncCommitteeSignature |-> <<>>]

\* a field of a fixed number of bytes: missing, then hex, then length
unpackFixedBytes(b, f, size, msg) ==
  LET text == msg.j[f.field]
      bytes == HexDecodeString(TrimPrefix0x(text))
  IN IF text = <<>> THEN Step(b, New(msg.missing), <<f.key \o ".missing">>)
     ELSE IF bytes.err # Nil
       THEN Step(b, Wrap(bytes.err, msg.invalid),
                 <<f.key \o ".missing", f.key \o ".parse">>)
     ELSE IF Len(bytes.bytes) < size
       THEN Step(b, New(msg.short),
                 <<f.key \o ".missing", f.key \o ".parse", f.key \o ".length">>)
     ELSE IF Len(bytes.bytes) > size
       THEN Step(b, New(msg.long),
                 <<f.key \o ".missing", f.key \o ".parse", f.key \o ".length">>)
     ELSE Step([b EXCEPT ![f.field] = bytes.bytes], Nil,
               <<f.key \o ".missing", f.key \o ".parse", f.key \o ".length",
                 f.key \o ".assign">>)

\* a uint64 field: missing, then decimal
unpackUint64(b, f, msg) ==
  LET text == msg.j[f.field]
      n == ParseUint(text)
  IN IF text = <<>> THEN Step(b, New(msg.missing), <<f.key \o ".missing">>)
     ELSE IF n.err # Nil
       THEN Step(b, Wrap(n.err, msg.invalid),
                 <<f.key \o ".missing", f.key \o ".parse">>)
     ELSE Step([b EXCEPT ![f.field] = n.n], Nil,
               <<f.key \o ".missing", f.key \o ".parse", f.key \o ".assign">>)

depositUnpackPublicKey(b, j) ==
  unpackFixedBytes(b, depositMessageJSONFields[1], PublicKeyLength,
    [j |-> j, missing |-> "public key missing",
     invalid |-> "invalid value for public key",
     short |-> "incorrect length for public key",
     long |-> "incorrect length for public key"])

depositUnpackWithdrawalCredentials(b, j) ==
  unpackFixedBytes(b, depositMessageJSONFields[2], HashLength,
    [j |-> j, missing |-> "withdrawal credentials missing",
     invalid |-> "invalid value for withdrawal credentials",
     short |-> "incorrect length for withdrawal credentials",
     long |-> "incorrect length for withdrawal credentials"])

depositUnpackAmount(b, j) ==
  unpackUint64(b, depositMessageJSONFields[3],
    [j |-> j, missing |-> "amount missing", invalid |-> "invalid value for amount"])

\* func (d *DepositMessage) unpack(depositMessageJSON *depositMessageJSON) error
depositMessageUnpack(b, j) ==
  Then(Then(depositUnpackPublicKey(b, j),
            depositUnpackWithdrawalCredentials, j),
       depositUnpackAmount, j)

syncUnpackBits(b, j) ==
  unpackFixedBytes(b, syncAggregateJSONFields[1], SyncCommitteeBitsLength,
    [j |-> j, missing |-> "sync committee bits missing",
     invalid |-> "invalid value for sync committee bits",
     short |-> "sync committee bits too short",
     long |-> "sync committee bits too long"])

syncUnpackSignature(b, j) ==
  unpackFixedBytes(b, syncAggregateJSONFields[2], SignatureLength,
    [j |-> j, missing |-> "sync committee signature missing",
     invalid |-> "invalid value for sync committee signature",
     short |-> "sync committee signature short",
     long |-> "sync committee signature long"])

\* func (s *SyncAggregate) unpack(syncAggregateJSON *syncAggregateJSON) error
syncAggregateUnpack(b, j) == Then(syncUnpackBits(b, j), syncUnpackSignature, j)

depositMessageMarshalJSON(d) ==
  JObject(<< Member("pubkey", JStr(FormatHex(d.PublicKey))),
             Member("withdrawal_credentials", JStr(FormatHex(d.WithdrawalCredentials))),
             Member("amount", JStr(FormatUint(d.Amount))) >>, FALSE)

depositMessageUnmarshalJSON(d, input) ==
  LET r == JsonUnmarshalStruct(input, depositMessageJSONFields, ZeroDepositMessageJSON)
  IN IF r.err # Nil THEN Step(d, Wrap(r.err, "invalid JSON"), <<>>)
     ELSE depositMessageUnpack(d, r.j)

depositMessageMarshalYAML(d) ==
  ReplaceQuotes(
    YFlow(<< Member("pubkey", YamlString(FormatHex(d.PublicKey))),
             Member("withdrawal_credentials",
                    YamlString(FormatHex(d.WithdrawalCredentials))),
             Member("amount", YamlUint(d.Amount)) >>, 1))

depositMessageUnmarshalYAML(d, input) ==
  LET r == YamlUnmarshalStruct(input, depositMessageJSONFields, ZeroDepositMessageJSON)
  IN IF r.err # Nil THEN Step(d, r.err, <<>>)
     ELSE depositMessageUnpack(d, r.j)

syncAggregateMarshalJSON(a) ==
  JObject(<< Member("sync_committee_bits", JStr(FormatHex(a.SyncCommitteeBits))),
             Member("sync_committee_signature",
                    JStr(FormatHex(a.SyncCommitteeSignature))) >>, FALSE)

syncAggregateUnmarshalJSON(a, input) ==
  LET r == JsonUnmarshalStruct(input, syncAggregateJSONFields, ZeroSyncAggregateJSON)
  IN IF r.err # Nil THEN Step(a, Wrap(r.err, "invalid JSON"), <<>>)
     ELSE syncAggregateUnpack(a, r.j)

syncAggregateMarshalYAML(a) ==
  ReplaceQuotes(
    YFlow(<< Member("sync_committee_bits", YamlString(FormatHex(a.SyncCommitteeBits))),
             Member("sync_committee_signature",
                    YamlString(FormatHex(a.SyncCommitteeSignature))) >>, 1))

syncAggregateUnmarshalYAML(a, input) ==
  LET r == YamlUnmarshalStruct(input, syncAggregateJSONFields, ZeroSyncAggregateJSON)
  IN IF r.err # Nil THEN Step(a, r.err, <<>>)
     ELSE syncAggregateUnpack(a, r.j)

(***************************************************************************)
(* The binary form of the two fixed-size records: the fields in declared   *)
(* order, byte sequences verbatim, a uint64 as 8 bytes least significant   *)
(* first; decoding requires exactly the declared number of bytes.          *)
(***************************************************************************)
\* the 8 little-endian bytes of a uint64
\* PutUint64 writing the most significant byte first
PutUint64BigEndian(n) ==
  [i \in 1..8 |-> IF i % 2 = 1 THEN n[(10 - i) \div 2] \div 256
                  ELSE n[(10 - i) \div 2] % 256]

PutUint64(n) ==
  [i \in 1..8 |-> IF i % 2 = 1 THEN n[(i + 1) \div 2] % 256
                  ELSE n[i \div 2] \div 256]

\* the uint64 of 8 little-endian bytes
Uint64Of(bs) == [i \in 1..4 |-> bs[2 * i - 1] + 256 * bs[2 * i]]

ErrSize == [lib |-> "ssz", err |-> "incorrect size"]

depositMessageSizeSSZ == PublicKeyLength + HashLength + 8

syncAggregateSizeSSZ == SyncCommitteeBitsLength + SignatureLength

depositMessageMarshalSSZ(d) ==
  d.PublicKey \o d.WithdrawalCredentials \o PutUint64(d.Amount)

depositMessageUnmarshalSSZ(d, buf) ==
  IF Len(buf) # depositMessageSizeSSZ THEN [b |-> d, err |-> ErrSize]
  ELSE [b |-> [PublicKey |-> SubSeq(buf, 1, PublicKeyLength),
               WithdrawalCredentials |->
                 SubSeq(buf, PublicKeyLength + 1, PublicKeyLength + HashLength),
               Amount |-> Uint64Of(SubSeq(buf, PublicKeyLength + HashLength + 1,
                                          depositMessageSizeSSZ))],
        err |-> Nil]

syncAggregateMarshalSSZ(a) == a.SyncCommitteeBits \o a.SyncCommitteeSignature

syncAggregateUnmarshalSSZ(a, buf) ==
  IF Len(buf) # syncAggregateSizeSSZ THEN [b |-> a, err |-> ErrSize]
  ELSE [b |-> [SyncCommitteeBits |-> SubSeq(buf, 1, SyncCommitteeBitsLength),
               SyncCommitteeSignature |->
                 SubSeq(buf, SyncCommitteeBitsLength + 1, syncAggregateSizeSSZ)],
        err |-> Nil]

(***************************************************************************)
(* The entry points, as the tests call them on a value of any shape        *)
(***************************************************************************)
Shapes == {"BeaconBlock", "DepositMessage", "SyncAggregate"}

ZeroValue(s) ==
  CASE s = "BeaconBlock" -> ZeroBeaconBlock
    [] s = "DepositMessage" -> ZeroDepositMessage
    [] s = "SyncAggregate" -> ZeroSyncAggregate

\* res.UnmarshalJSON(input)
MethodUnmarshalJSON(s, b, input) ==
  CASE s = "BeaconBlock" -> UnmarshalJSON(b, input)
    [] s = "DepositMessage" -> depositMessageUnmarshalJSON(b, input)
    [] s = "SyncAggregate" -> syncAggregateUnmarshalJSON(b, input)

\* json.Unmarshal(input, &res): checkValid first, then res.UnmarshalJSON(input)
JsonUnmarshal(s, b, input) ==
  IF input.kind = "empty" THEN Step(b, SyntaxError, <<>>)
  ELSE MethodUnmarshalJSON(s, b, input)

\* json.Marshal(&res): res.MarshalJSON(), compacted
JsonMarshal(s, b) ==
  CASE s = "BeaconBlock" -> MarshalJSON(b)
    [] s = "DepositMessage" -> depositMessageMarshalJSON(b)
    [] s = "SyncAggregate" -> syncAggregateMarshalJSON(b)

\* yaml.Unmarshal(input, &res): res.UnmarshalYAML(input)
YamlUnmarshal(s, b, input) ==
  CASE s = "BeaconBlock" -> UnmarshalYAML(b, input)
    [] s = "DepositMessage" -> depositMessageUnmarshalYAML(b, input)
    [] s = "SyncAggregate" -> syncAggregateUnmarshalYAML(b, input)

\* res.MarshalYAML()
MethodMarshalYAML(s, b) ==
  CASE s = "BeaconBlock" -> MarshalYAML(b)
    [] s = "DepositMessage" -> depositMessageMarshalYAML(b)
    [] s = "SyncAggregate" -> syncAggregateMarshalYAML(b)

\* yaml.Marshal(&res), which res.String() returns too
YamlMarshal(s, b) ==
  CASE s = "BeaconBlock" -> String(b)
    [] OTHER -> Reemit(MethodMarshalYAML(s, b))

\* res.UnmarshalSSZ(buf)
SszUnmarshal(s, b, buf) ==
  CASE s = "DepositMessage" -> depositMessageUnmarshalSSZ(b, buf)
    [] s = "SyncAggregate" -> syncAggregateUnmarshalSSZ(b, buf)

\* res.MarshalSSZ()
SszMarshal(s, b) ==
  CASE s = "DepositMessage" -> depositMessageMarshalSSZ(b)
    [] s = "SyncAggregate" -> syncAggregateMarshalSSZ(b)

(***************************************************************************)
(* The texts the decoders are driven with: fixtures, and fixtures with     *)
(* some members replaced or laid out differently.                          *)
(***************************************************************************)
\* decimal literals
D0 == <<"0">>

D7 == <<"7">>

D007 == <<"0", "0", "7">>

D32G == <<"3", "2", "0", "0", "0", "0", "0", "0", "0", "0", "0">>

\* 2^64 - 1
DMax == <<"1", "8", "4", "4", "6", "7", "4", "4", "0", "7",
          "3", "7", "0", "9", "5", "5", "1", "6", "1", "5">>

\* 2^64
DOver == <<"1", "8", "4", "4", "6", "7", "4", "4", "0", "7",
           "3", "7", "0", "9", "5", "5", "1", "6", "1", "6">>

DNeg == <<"-", "1">>

DJunk == <<"1", "x">>

\* the hexadecimal literal of n bytes, each written as the two characters of pair
Hx(pair, n) == <<"0", "x">> \o Rep(pair, n)

HInvalid == <<"i", "n", "v", "a", "l", "i", "d">>

Absent == [t |-> "absent"]

GoodDec == {JStr(D7), JStr(DMax), JStr(D0), JStr(D32G)}

OddDec == {JStr(D007)}

BadDec == {JStr(DNeg), JStr(DJunk), JStr(DOver), JStr(<<>>), Absent, JBool, JNull,
           JNum(D7)}

GoodHex(n) == {JStr(Hx(<<"a", "b">>, n)), JStr(Hx(<<"0", "1">>, n))}

OddHex(n) == {JStr(Rep(<<"a", "b">>, n)), JStr(Hx(<<"A", "b">>, n))}

BadHex(n) ==
  {JStr(HInvalid), JStr(Hx(<<"a", "b">>, n - 1)), JStr(Hx(<<"a", "b">>, n + 1)),
   JStr(Hx(<<"a", "b">>, n) \o <<"a">>), JStr(<<"0", "X">> \o Rep(<<"a", "b">>, n)),
   JStr(<<"0", "x">>), JStr(<<>>), Absent, JBool}

GoodBody == {BodyText("bodyA", "canonical"), BodyText("bodyB", "canonical")}

OddBody == {BodyText("bodyA", "spaced")}

BadBody == {BodyText("bodyA", "bad"), Absent, JNull, JBool}

FieldsOf(s) ==
  CASE s = "BeaconBlock" -> beaconBlockJSONFields
    [] s = "DepositMessage" -> depositMessageJSONFields
    [] s = "SyncAggregate" -> syncAggregateJSONFields

Keys(s) == [i \in 1..Len(FieldsOf(s)) |-> FieldsOf(s)[i].key]

DecKeys == {"slot", "proposer_index", "amount"}

\* the declared number of bytes of a byte field
SizeOf(k) ==
  CASE k \in {"parent_root", "state_root"} -> RootLength
    [] k = "withdrawal_credentials" -> HashLength
    [] k = "pubkey" -> PublicKeyLength
    [] k = "sync_committee_bits" -> SyncCommitteeBitsLength
    [] k = "sync_committee_signature" -> SignatureLength

\* what a member of an input may hold
Choices(k) ==
  CASE k \in DecKeys -> GoodDec \cup OddDec \cup BadDec
    [] k = "body" -> GoodBody \cup OddBody \cup BadBody
    [] OTHER -> GoodHex(SizeOf(k)) \cup OddHex(SizeOf(k)) \cup BadHex(SizeOf(k))

\* the fixture: the canonical text of a well-formed value
Fixture(s) ==
  CASE s = "BeaconBlock" ->
         [slot |-> JStr(D7), proposer_index |-> JStr(D32G),
          parent_root |-> JStr(Hx(<<"a", "b">>, RootLength)),
          state_root |-> JStr(Hx(<<"0", "1">>, RootLength)),
          body |-> BodyText("bodyA", "canonical")]
    [] s = "DepositMessage" ->
         [pubkey |-> JStr(Hx(<<"a", "b">>, PublicKeyLength)),
          withdrawal_credentials |-> JStr(Hx(<<"0", "1">>, HashLength)),
          amount |-> JStr(D32G)]
    [] s = "SyncAggregate" ->
         [sync_committee_bits |-> JStr(Hx(<<"0", "1">>, SyncCommitteeBitsLength)),
          sync_committee_signature |-> JStr(Hx(<<"a", "b">>, SignatureLength))]

\* how many members of an input differ from the fixture it is made from
MaxDefects == 2

\* a with at most k of its members from the i-th on replaced
RECURSIVE Defective(_, _, _, _)
Defective(s, a, i, k) ==
  IF k = 0 \/ i > Len(Keys(s)) THEN {a}
  ELSE Defective(s, a, i + 1, k) \cup
       UNION {Defective(s, [a EXCEPT ![Keys(s)[i]] = t], i + 1, k - 1) :
                t \in Choices(Keys(s)[i]) \ {a[Keys(s)[i]]}}

\* the fixture with at most MaxDefects members replaced
Variants == [s \in Shapes |-> Defective(s, Fixture(s), 1, MaxDefects)]

\* the canonical texts of a member
GoodChoices(k) ==
  CASE k \in DecKeys -> GoodDec
    [] k = "body" -> GoodBody
    [] OTHER -> GoodHex(SizeOf(k))

\* every member is written canonically
AllGood(s, a) == \A i \in 1..Len(Keys(s)) : a[Keys(s)[i]] \in GoodChoices(Keys(s)[i])

\* the canonical texts of well-formed values
Fixtures == [s \in Shapes |-> {a \in Variants[s] : AllGood(s, a)}]

RECURSIVE MembersOf(_, _, _)
MembersOf(a, keys, i) ==
  IF i > Len(keys) THEN <<>>
  ELSE IF a[keys[i]] = Absent THEN MembersOf(a, keys, i + 1)
  ELSE <<Member(keys[i], a[keys[i]])>> \o MembersOf(a, keys, i + 1)

Reverse(q) == [i \in 1..Len(q) |-> q[Len(q) + 1 - i]]

\* the ways a JSON text may be laid out
Layouts == {"canonical", "spaced", "reversed", "extra", "duplicate", "upper"}

Doc(s, a, layout) ==
  LET ms == MembersOf(a, Keys(s), 1)
  IN CASE layout = "canonical" -> JObject(ms, FALSE)
       [] layout = "spaced" -> JObject(ms, TRUE)
       [] layout = "reversed" -> JObject(Reverse(ms), FALSE)
       [] layout = "extra" -> JObject(Append(ms, Member("unknown", JBool)), FALSE)
       [] layout = "duplicate" -> JObject(<<ms[1]>> \o ms, FALSE)
       [] layout = "upper" ->
            JObject(<<Member(CASE ms[1].key = "slot" -> "SLOT"
                               [] ms[1].key = "pubkey" -> "PUBKEY"
                               [] OTHER -> "SYNC_COMMITTEE_BITS", ms[1].val)>>
                    \o Tail(ms), FALSE)

JSONInputs ==
  [s \in Shapes |->
     {JEmpty, JArray}
       \cup {Doc(s, a, "canonical") : a \in Variants[s]}
       \cup {Doc(s, Fixture(s), l) : l \in Layouts}]

\* the ways the scalars of a YAML text may be written
Styles == {"canonical", "quoted", "double"}

YamlScalar(k, s, style) ==
  CASE style = "double" -> YDouble(s)
    [] style = "quoted" -> YSingle(s)
    [] OTHER -> IF k \in DecKeys THEN YPlain(s) ELSE YSingle(s)

YamlValue(k, v, style) ==
  CASE v.t = "string" -> YamlScalar(k, v.s, style)
    [] v.t = "null" -> YNull
    [] OTHER -> v

YamlMembers(ms, style) ==
  [i \in 1..Len(ms) |-> Member(ms[i].key, YamlValue(ms[i].key, ms[i].val, style))]

\* a text of nl line breaks at its end
YDoc(s, a, style, nl) == YFlow(YamlMembers(MembersOf(a, Keys(s), 1), style), nl)

\* the members YAML can state: no booleans, and numerals only as the encoder
\* writes them
YamlStatable(s, a) ==
  \A i \in 1..Len(Keys(s)) :
    LET k == Keys(s)[i]
    IN /\ a[k].t \in {"string", "object", "null", "absent"}
       /\ k \in DecKeys => a[k] \in GoodDec \cup {Absent}

YAMLInputs ==
  [s \in Shapes |->
     {YSequence}
       \cup {YDoc(s, a, "canonical", 0) :
               a \in {x \in Variants[s] : YamlStatable(s, x)}}
       \cup {YDoc(s, Fixture(s), st, 0) : st \in Styles}
       \cup {YFlow(Reverse(YDoc(s, Fixture(s), "canonical", 0).members), 0)}]

\* the bytes a fixture's member stands for, as its binary file holds them
FixtureBytesOf(v) ==
  CASE v.s = D0 -> <<0, 0, 0, 0, 0, 0, 0, 0>>
    [] v.s = D7 -> <<7, 0, 0, 0, 0, 0, 0, 0>>
    [] v.s = D32G -> <<0, 64, 89, 115, 7, 0, 0, 0>>
    [] v.s = DMax -> <<255, 255, 255, 255, 255, 255, 255, 255>>
    [] v.s[3] = "a" -> Rep(<<171>>, (Len(v.s) - 2) \div 2)
    [] v.s[3] = "0" -> Rep(<<1>>, (Len(v.s) - 2) \div 2)

RECURSIVE FixtureBytes(_, _, _)
FixtureBytes(a, keys, i) ==
  IF i > Len(keys) THEN <<>>
  ELSE FixtureBytesOf(a[keys[i]]) \o FixtureBytes(a, keys, i + 1)

SSZShapes == {"DepositMessage", "SyncAggregate"}

SizeSSZ(s) ==
  CASE s = "DepositMessage" -> depositMessageSizeSSZ
    [] s = "SyncAggregate" -> syncAggregateSizeSSZ

Counting(n) == [i \in 1..n |-> (i - 1) % 256]

Scrambled(n) == [i \in 1..n |-> (i * 37 + 200) % 256]

SSZInputs ==
  [s \in SSZShapes |->
     {FixtureBytes(a, Keys(s), 1) : a \in Fixtures[s]}
       \cup {Counting(SizeSSZ(s)), Scrambled(SizeSSZ(s)), Rep(<<255>>, SizeSSZ(s)),
             Counting(SizeSSZ(s) - 1), Counting(SizeSSZ(s) + 1), <<>>}]

(***************************************************************************)
(* Values built directly by the application                                *)
(***************************************************************************)
Preloaded ==
  [s \in Shapes |->
     CASE s = "BeaconBlock" ->
            { [Slot |-> <<9, 0, 0, 32768>>, ProposerIndex |-> U64MaxVal,
               ParentRoot |-> Counting(RootLength),
               StateRoot |-> Scrambled(RootLength), Body |-> "bodyB"] }
       [] s = "DepositMessage" ->
            { [PublicKey |-> Counting(PublicKeyLength),
               WithdrawalCredentials |-> Scrambled(HashLength),
               Amount |-> <<1, 2, 3, 4>>] }
       [] s = "SyncAggregate" ->
            { [SyncCommitteeBits |-> Scrambled(SyncCommitteeBitsLength),
               SyncCommitteeSignature |-> Counting(SignatureLength)] }]

(***************************************************************************)
(* multi.Service.BeaconBlockBlobs                                          *)
(***************************************************************************)
\* a []*deneb.BlobSidecar: the nil slice, or a slice of sidecars
NilBlobs == [isNil |-> TRUE, items |-> <<>>]

BlobList(items) == [isNil |-> FALSE, items |-> items]

BlobLists == {NilBlobs, BlobList(<<>>), BlobList(<<"sidecar0">>),
              BlobList(<<"sidecar0", "sidecar1">>)}

\* an interface{}: nil, or holding a []*deneb.BlobSidecar
NilInterface == [typed |-> FALSE]

Boxed(blobs) == [typed |-> TRUE, val |-> blobs]

\* the errors a client or doCall may report
CallErrors == {New("context canceled"), New("no client available")}

BlockIDs == {"head", "0x01"}

\* what the client's BeaconBlockBlobs may return: any list with any error
ClientReplies == [blobs : BlobLists, err : {Nil} \cup CallErrors]

\* the function handed to doCall, on the reply of the client it is given
beaconBlockBlobsCall(reply) ==
  IF reply.err # Nil THEN [res |-> NilInterface, err |-> reply.err]
  ELSE [res |-> Boxed(reply.blobs), err |-> Nil]

\* what doCall may return: what the function returned for the selected
\* client, or a result and error of its own
DoCallReturns(reply) ==
  {beaconBlockBlobsCall(reply)}
    \cup [res : {NilInterface} \cup {Boxed(l) : l \in BlobLists},
          err : {Nil} \cup CallErrors]

\* BeaconBlockBlobs returning what doCall delivered beside its error
BeaconBlockBlobsKeepRes(d) ==
  IF d.res = NilInterface THEN [blobs |-> NilBlobs, err |-> d.err]
  ELSE [blobs |-> d.res.val, err |-> d.err]

\* func (s *Service) BeaconBlockBlobs(ctx, blockID): from doCall's return on
BeaconBlockBlobs(d) ==
  IF d.err # Nil THEN [blobs |-> NilBlobs, err |-> d.err]
  ELSE IF d.res = NilInterface THEN [blobs |-> NilBlobs, err |-> Nil]
  ELSE [blobs |-> d.res.val, err |-> Nil]

\* no call of BeaconBlockBlobs made yet
Idle == [pc |-> "idle"]

(***************************************************************************)
(* The state: one value res of one shape, as in a test case, and what the  *)
(* codec calls made on it so far delivered.                                *)
(***************************************************************************)
VARIABLES
  shape,   \* the record type of res
  res,     \* the value: the receiver of the decoders, the source of the encoders
  pc,      \* "ready", "decoded", "encoded", "redecoded"
  via,     \* the entry point of the last call
  input,   \* the text or bytes last decoded into res
  err,     \* the error of the last decode into res
  trace,   \* the field checks and assignments that decode ran, in order
  rt,      \* the text or bytes last encoded from res
  res2,    \* a fresh value that rt was decoded into
  err2,    \* the error of that decode
  call     \* the last call of Service.BeaconBlockBlobs: what it was given, what
           \* the client and doCall returned, what it returned

vars == <<shape, res, pc, via, input, err, trace, rt, res2, err2, call>>

NoText == [kind |-> "none"]

NoValue == [none |-> TRUE]

Bytes(buf) == [kind |-> "bytes", bytes |-> buf]

Init ==
  /\ shape \in Shapes
  /\ res \in {ZeroValue(shape)} \cup Preloaded[shape]
  /\ pc = "ready"
  /\ via = "new"
  /\ input = NoText
  /\ err = Nil
  /\ trace = <<>>
  /\ rt = NoText
  /\ res2 = NoValue
  /\ err2 = Nil
  /\ call = Idle

Decoded(r, entry, t) ==
  /\ res' = r.b
  /\ err' = r.err
  /\ trace' = r.trace
  /\ input' = t
  /\ via' = entry
  /\ pc' = "decoded"
  /\ UNCHANGED <<shape, rt, res2, err2, call>>

\* err := json.Unmarshal(test.input, &res)
TestJSONUnmarshal ==
  /\ pc = "ready"
  /\ \E t \in JSONInputs[shape] :
       Decoded(JsonUnmarshal(shape, res, t), "json.Unmarshal", t)

\* var res T; err := res.UnmarshalJSON(input), called directly
CallUnmarshalJSON ==
  /\ pc = "ready"
  /\ res = ZeroValue(shape)
  /\ \E t \in JSONInputs[shape] :
       Decoded(MethodUnmarshalJSON(shape, res, t), "UnmarshalJSON", t)

\* err := yaml.Unmarshal(test.input, &res)
TestYAMLUnmarshal ==
  /\ pc = "ready"
  /\ \E t \in YAMLInputs[shape] :
       Decoded(YamlUnmarshal(shape, res, t), "yaml.Unmarshal", t)

\* err := res.UnmarshalSSZ(specSSZ)
TestSSZUnmarshal ==
  /\ pc = "ready"
  /\ shape \in SSZShapes
  /\ \E buf \in SSZInputs[shape] :
       LET r == SszUnmarshal(shape, res, buf)
       IN Decoded([b |-> r.b, err |-> r.err, trace |-> <<>>], "UnmarshalSSZ",
                  Bytes(buf))

Encoded(text, entry) ==
  /\ rt' = text
  /\ via' = entry
  /\ pc' = "encoded"
  /\ UNCHANGED <<shape, res, input, err, trace, res2, err2, call>>

\* the encoders are called on a value built directly or decoded without error
Encodable == pc \in {"ready", "decoded"} /\ err = Nil

\* rt, err := json.Marshal(&res)
TestJSONMarshal == Encodable /\ Encoded(JsonMarshal(shape, res), "json.Marshal")

\* rt, err := yaml.Marshal(&res)
TestYAMLMarshal == Encodable /\ Encoded(YamlMarshal(shape, res), "yaml.Marshal")

\* rt, err := res.MarshalYAML(), called directly
CallMarshalYAML == Encodable /\ Encoded(MethodMarshalYAML(shape, res), "MarshalYAML")

\* rt, err := res.MarshalSSZ()
TestSSZMarshal ==
  /\ Encodable
  /\ shape \in SSZShapes
  /\ Encoded(Bytes(SszMarshal(shape, res)), "MarshalSSZ")

Redecoded(r) ==
  /\ res2' = r.b
  /\ err2' = r.err
  /\ pc' = "redecoded"
  /\ UNCHANGED <<shape, res, via, input, err, trace, rt, call>>

\* the text or bytes just encoded are decoded into a fresh value
RoundTrip ==
  /\ pc = "encoded"
  /\ \/ /\ via = "json.Marshal"
        /\ Redecoded(JsonUnmarshal(shape, ZeroValue(shape), rt))
     \/ /\ via \in {"yaml.Marshal", "MarshalYAML"}
        /\ Redecoded(YamlUnmarshal(shape, ZeroValue(shape), rt))
     \/ /\ via = "MarshalSSZ"
        /\ Redecoded(SszUnmarshal(shape, ZeroValue(shape), rt.bytes))

Next ==
  \/ TestJSONUnmarshal
  \/ CallUnmarshalJSON
  \/ TestYAMLUnmarshal
  \/ TestSSZUnmarshal
  \/ TestJSONMarshal
  \/ TestYAMLMarshal
  \/ CallMarshalYAML
  \/ TestSSZMarshal
  \/ RoundTrip

Spec == Init /\ [][Next]_vars

(***************************************************************************)
(* The calls of Service.BeaconBlockBlobs, no codec being called            *)
(***************************************************************************)
codecVars == <<shape, res, pc, via, input, err, trace, rt, res2, err2>>

BlobsInit == Init /\ shape = "BeaconBlock" /\ res = ZeroBeaconBlock

\* blobs, err := s.BeaconBlockBlobs(ctx, blockID)
CallBeaconBlockBlobs ==
  /\ \E blockID \in BlockIDs, reply \in ClientReplies :
       \E d \in DoCallReturns(reply) :
         call' = [pc |-> "returned", blockID |-> blockID, reply |-> reply,
                  inner |-> beaconBlockBlobsCall(reply), doCall |-> d,
                  out |-> BeaconBlockBlobs(d)]
  /\ UNCHANGED codecVars

BlobsNext == CallBeaconBlockBlobs

BlobsSpec == BlobsInit /\ [][BlobsNext]_vars

(***************************************************************************)
(* What is read off a text                                                 *)
(***************************************************************************)
IsText(t) == t.kind \in {"object", "flow"}

IsJSON(t) == t.kind \in {"empty", "array", "object"}

HasKey(t, k) == \E i \in 1..Len(t.members) : t.members[i].key = k

\* the value of the member written under key k
ValueAt(t, k) ==
  t.members[CHOOSE i \in 1..Len(t.members) : t.members[i].key = k].val

IsScalar(v) == v.t \in {"string", "plain", "single", "double"}

DecDigitSet == Range(DecDigits)

HexDigitSet == Range(HexLower) \cup Range(HexUpper)

IsDecimal(s) == s # <<>> /\ \A i \in 1..Len(s) : s[i] \in DecDigitSet

\* a decimal numeral without leading zeros
CanonDecimal(s) == IsDecimal(s) /\ (Len(s) = 1 \/ s[1] # "0")

\* 0x followed by lowercase hexadecimal digits
CanonHex(s) ==
  /\ Len(s) >= 2
  /\ s[1] = "0"
  /\ s[2] = "x"
  /\ \A i \in 3..Len(s) : s[i] \in Range(HexLower)

CanonValue(k, v, scalar) ==
  IF k = "body" THEN v.t = "object" /\ v.form = "canonical"
  ELSE IF k \in DecKeys
    THEN v.t = (IF scalar = "single" THEN "plain" ELSE scalar) /\ CanonDecimal(v.s)
  ELSE v.t = scalar /\ CanonHex(v.s)

\* exactly the record's members, in declared order, each written canonically
CanonMembers(s, t, scalar) ==
  /\ Len(t.members) = Len(Keys(s))
  /\ \A i \in 1..Len(Keys(s)) :
       /\ t.members[i].key = Keys(s)[i]
       /\ CanonValue(Keys(s)[i], t.members[i].val, scalar)

\* a JSON object without white space: decimal strings without leading zeros,
\* 0x-prefixed lowercase hexadecimal strings, a canonical body
CanonicalJSON(s, t) == t.kind = "object" /\ ~t.ws /\ CanonMembers(s, t, "string")

\* a single-line flow mapping: bare decimal numbers, single-quoted 0x-prefixed
\* lowercase hexadecimal strings, a canonical body, no line break at its end
CanonicalYAML(s, t) == t.kind = "flow" /\ t.nl = 0 /\ CanonMembers(s, t, "single")

(***************************************************************************)
(* C1: for every well-formed BeaconBlock v (non-nil Body),                 *)
(* UnmarshalJSON(MarshalJSON(v)) succeeds and yields a value whose Slot,   *)
(* ProposerIndex, ParentRoot, StateRoot and Body equal those of v.         *)
(***************************************************************************)
C1_JSONRoundTrip ==
  (/\ shape = "BeaconBlock"
   /\ pc = "redecoded"
   /\ via = "json.Marshal"
   /\ res.Body # NilBody)
  => /\ err2 = Nil
     /\ res2.Slot = res.Slot
     /\ res2.ProposerIndex = res.ProposerIndex
     /\ res2.ParentRoot = res.ParentRoot
     /\ res2.StateRoot = res.StateRoot
     /\ res2.Body = res.Body

\* a block built directly, with a slot above 2^63, came back from its JSON
C1_Witness ==
  /\ shape = "BeaconBlock"
  /\ pc = "redecoded"
  /\ via = "json.Marshal"
  /\ input = NoText
  /\ res.Slot = <<9, 0, 0, 32768>>
  /\ res.ProposerIndex = U64MaxVal
  /\ res2 = res

(***************************************************************************)
(* C2, as claimed: for every JSON text t that the decoder accepts,         *)
(* re-encoding the decoded value returns exactly t.                        *)
(***************************************************************************)
C2_AnyAcceptedText ==
  (/\ pc = "encoded"
   /\ via = "json.Marshal"
   /\ IsJSON(input))
  => rt = input

(***************************************************************************)
(* C2, amended: for every canonical JSON text t that the decoder accepts   *)
(* (the record's members once each in declared order, no white space,      *)
(* decimal strings without leading zeros, 0x-prefixed lowercase            *)
(* hexadecimal strings), re-encoding the decoded value returns exactly t.  *)
(***************************************************************************)
C2_CanonicalTextStable ==
  (/\ pc = "encoded"
   /\ via = "json.Marshal"
   /\ IsJSON(input)
   /\ CanonicalJSON(shape, input))
  => rt = input

\* a canonical BeaconBlock text with the largest slot was decoded and re-encoded
C2_Witness ==
  /\ shape = "BeaconBlock"
  /\ pc = "encoded"
  /\ via = "json.Marshal"
  /\ IsJSON(input)
  /\ CanonicalJSON(shape, input)
  /\ ValueAt(input, "slot") = JStr(DMax)
  /\ rt = input

(***************************************************************************)
(* The fields of an input, and the messages about them                     *)
(***************************************************************************)
ByteKeys(s) == Range(Keys(s)) \ (DecKeys \cup {"body"})

\* the name of a field as the error messages write it
FieldName(k) ==
  CASE k = "slot" -> "slot"
    [] k = "proposer_index" -> "proposer index"
    [] k = "parent_root" -> "parent root"
    [] k = "state_root" -> "state root"
    [] k = "body" -> "body"
    [] k = "pubkey" -> "public key"
    [] k = "withdrawal_credentials" -> "withdrawal credentials"
    [] k = "amount" -> "amount"
    [] k = "sync_committee_bits" -> "sync committee bits"
    [] k = "sync_committee_signature" -> "sync committee signature"

\* the length error of a byte field; short is whether bytes are lacking
LengthMessage(k, short) ==
  CASE k = "sync_committee_bits" ->
         "sync committee bits too " \o (IF short THEN "short" ELSE "long")
    [] k = "sync_committee_signature" ->
         "sync committee signature " \o (IF short THEN "short" ELSE "long")
    [] OTHER -> "incorrect length for " \o FieldName(k)

\* the texts a field accepts
ValidTexts(k) ==
  IF k \in DecKeys THEN {D0, D7, D007, D32G, DMax}
  ELSE {Hx(<<"a", "b">>, SizeOf(k)), Hx(<<"0", "1">>, SizeOf(k)),
        Hx(<<"A", "b">>, SizeOf(k)), Rep(<<"a", "b">>, SizeOf(k))}

ValidMember(k, v) ==
  IF k = "body" THEN v.t = "object" /\ v.form \in {"canonical", "spaced"}
  ELSE IsScalar(v) /\ v.s \in ValidTexts(k)

AllKeysDeclared(t) ==
  \A i \in 1..Len(t.members) : t.members[i].key \in Range(Keys(shape))

\* every field but k is present and valid
OthersValid(t, k) ==
  /\ AllKeysDeclared(t)
  /\ \A i \in 1..Len(t.members) :
       t.members[i].key # k => ValidMember(t.members[i].key, t.members[i].val)
  /\ \A k2 \in Range(Keys(shape)) \ {k} : HasKey(t, k2)

TextDecoded == pc = "decoded" /\ IsText(input)

(***************************************************************************)
(* C3, as claimed: a failed textual decode of a BeaconBlock returns the    *)
(* error and leaves the receiver as it was before the call, wherever in    *)
(* the unpack sequence the failure happens.                                *)
(***************************************************************************)
C3_ReceiverUntouchedOnError ==
  [][(/\ shape = "BeaconBlock"
      /\ pc = "ready"
      /\ pc' = "decoded"
      /\ IsText(input')
      /\ err' # Nil) => res' = res]_vars

(***************************************************************************)
(* C4: when a text lacks one required field and every other field is       *)
(* valid, decoding fails with the error "<name of the field> missing",     *)
(* and a text lacking a required field never decodes without error.        *)
(***************************************************************************)
C4_MissingField ==
  TextDecoded =>
    /\ \A k \in Range(Keys(shape)) :
         (~HasKey(input, k) /\ OthersValid(input, k))
           => err = [msg |-> FieldName(k) \o " missing", cause |-> Nil]
    /\ (AllKeysDeclared(input) /\ \E k \in Range(Keys(shape)) : ~HasKey(input, k))
         => err # Nil

\* a BeaconBlock text without its body was refused
C4_Witness ==
  /\ TextDecoded
  /\ shape = "BeaconBlock"
  /\ ~HasKey(input, "body")
  /\ OthersValid(input, "body")
  /\ err = [msg |-> "body missing", cause |-> Nil]

(***************************************************************************)
(* C5: a text decodes without error only when each fixed-length byte field *)
(* holds exactly its declared number of bytes (32, 48, 64 or 96), and a    *)
(* field holding one byte less or one byte more, every other field being   *)
(* valid, fails with the length error of that field.                       *)
(***************************************************************************)
\* the number of bytes a hexadecimal text holds
HexBytes(s) ==
  IF Len(s) >= 2 /\ s[1] = "0" /\ s[2] = "x" THEN (Len(s) - 2) \div 2
  ELSE Len(s) \div 2

C5_FixedLength ==
  TextDecoded =>
    \A k \in ByteKeys(shape) :
      HasKey(input, k) =>
        LET v == ValueAt(input, k)
        IN /\ (err = Nil /\ IsScalar(v)) => HexBytes(v.s) = SizeOf(k)
           /\ \A short \in BOOLEAN :
                (/\ IsScalar(v)
                 /\ v.s = Hx(<<"a", "b">>,
                             IF short THEN SizeOf(k) - 1 ELSE SizeOf(k) + 1)
                 /\ OthersValid(input, k))
                  => err = [msg |-> LengthMessage(k, short), cause |-> Nil]

\* a BeaconBlock text with a parent root of 31 bytes was refused
C5_Witness ==
  /\ TextDecoded
  /\ shape = "BeaconBlock"
  /\ HasKey(input, "parent_root")
  /\ ValueAt(input, "parent_root") = JStr(Hx(<<"a", "b">>, RootLength - 1))
  /\ OthersValid(input, "parent_root")
  /\ err = [msg |-> "incorrect length for parent root", cause |-> Nil]

(***************************************************************************)
(* C6, as claimed: every textual encoding, JSON and YAML, writes each      *)
(* 64-bit integer field (slot, proposer_index, amount) as a decimal string *)
(* value and never as a bare number.                                       *)
(***************************************************************************)
C6_AlwaysDecimalString ==
  (pc = "encoded" /\ via \in {"json.Marshal", "yaml.Marshal", "MarshalYAML"})
  => \A i \in 1..Len(rt.members) :
       rt.members[i].key \in DecKeys
         => /\ rt.members[i].val.t \in {"string", "single", "double"}
            /\ IsDecimal(rt.members[i].val.s)

(***************************************************************************)
(* C6, amended: the JSON encoding writes each 64-bit integer field as a    *)
(* decimal string value and never as a bare number; the YAML encoding      *)
(* writes it as a bare decimal number.                                     *)
(***************************************************************************)
C6_DecimalStringInJSON ==
  pc = "encoded" =>
    \A i \in 1..(IF IsText(rt) THEN Len(rt.members) ELSE 0) :
      rt.members[i].key \in DecKeys
        => /\ CanonDecimal(rt.members[i].val.s)
           /\ via = "json.Marshal" => rt.members[i].val.t = "string"
           /\ via \in {"yaml.Marshal", "MarshalYAML"}
                => rt.members[i].val.t = "plain"

\* the largest proposer index was written in YAML as a bare number
C6_Witness ==
  /\ shape = "BeaconBlock"
  /\ pc = "encoded"
  /\ via = "MarshalYAML"
  /\ res.ProposerIndex = U64MaxVal
  /\ ValueAt(rt, "proposer_index") = YPlain(DMax)

(***************************************************************************)
(* C7: JSON structural validation comes before every field check: an input *)
(* of zero bytes fails with "unexpected end of JSON input", and an input   *)
(* of the wrong shape (an array, or a boolean or number where a string is  *)
(* expected) fails with "invalid JSON: ...", no field check having run,    *)
(* whichever fields are absent or invalid.                                 *)
(***************************************************************************)
\* a member of a string field holds a boolean or a number
WrongKind(t) ==
  \E i \in 1..Len(t.members) :
    /\ t.members[i].key \in Range(Keys(shape)) \ {"body"}
    /\ t.members[i].val.t \in {"bool", "number"}

C7_StructureFirst ==
  (pc = "decoded" /\ IsJSON(input)) =>
    /\ input.kind = "empty" =>
         /\ trace = <<>>
         /\ via = "json.Unmarshal"
              => err = [lib |-> "json", err |-> "unexpected end of JSON input"]
         /\ via = "UnmarshalJSON"
              => err = [msg |-> "invalid JSON",
                        cause |-> [lib |-> "json",
                                   err |-> "unexpected end of JSON input"]]
    /\ input.kind = "array" =>
         /\ trace = <<>>
         /\ err.msg = "invalid JSON"
         /\ err.cause.lib = "json"
         /\ err.cause.value = "array"
    /\ (input.kind = "object" /\ WrongKind(input)) =>
         /\ trace = <<>>
         /\ err.msg = "invalid JSON"
         /\ err.cause # Nil

\* a BeaconBlock text with a boolean slot and no proposer index was refused as
\* invalid JSON
C7_Witness ==
  /\ shape = "BeaconBlock"
  /\ pc = "decoded"
  /\ input.kind = "object"
  /\ HasKey(input, "slot")
  /\ ValueAt(input, "slot") = JBool
  /\ ~HasKey(input, "proposer_index")
  /\ err.msg = "invalid JSON"
  /\ trace = <<>>

(***************************************************************************)
(* C8: for every binary fixture b of DepositMessage and SyncAggregate,     *)
(* Encode(Decode(b)) = b, and the binary encoding of the value decoded     *)
(* from the matching text also equals b.                                   *)
(***************************************************************************)
C8_BinaryRoundTrip ==
  (pc = "encoded" /\ via = "MarshalSSZ") =>
    /\ input.kind = "bytes" => rt.bytes = input.bytes
    /\ \A a \in Fixtures[shape] :
         input \in {YDoc(shape, a, "canonical", 0), Doc(shape, a, "canonical")}
           => rt.bytes = FixtureBytes(a, Keys(shape), 1)

\* the DepositMessage decoded from its YAML fixture was encoded to the bytes
\* of its binary fixture
C8_Witness ==
  /\ shape = "DepositMessage"
  /\ pc = "encoded"
  /\ via = "MarshalSSZ"
  /\ input = YDoc("DepositMessage", Fixture("DepositMessage"), "canonical", 0)
  /\ rt.bytes = Rep(<<171>>, 48) \o Rep(<<1>>, 32) \o <<0, 64, 89, 115, 7, 0, 0, 0>>

(***************************************************************************)
(* What a field's text can be parsed as                                    *)
(***************************************************************************)
\* the digits of s from its first digit that is not a zero
Significant(s) ==
  LET nz == {i \in 1..Len(s) : s[i] # "0"}
  IN IF nz = {} THEN <<>>
     ELSE SubSeq(s, CHOOSE i \in nz : \A j \in nz : i <= j, Len(s))

\* a numeral of as many digits as 2^64 - 1 that is not above it
NotAboveMax(s) ==
  \A i \in 1..Len(s) :
    (\A j \in 1..(i - 1) : s[j] = DMax[j])
      => IndexIn(s[i], DecDigits, 1) <= IndexIn(DMax[i], DecDigits, 1)

FitsUint64(s) ==
  \/ Len(Significant(s)) < Len(DMax)
  \/ Len(Significant(s)) = Len(DMax) /\ NotAboveMax(Significant(s))

\* an even number of hexadecimal digits, after 0x or without it
IsHex(s) ==
  LET digits == IF Len(s) >= 2 /\ s[1] = "0" /\ s[2] = "x"
                  THEN SubSeq(s, 3, Len(s)) ELSE s
  IN /\ Len(digits) % 2 = 0
     /\ \A i \in 1..Len(digits) : digits[i] \in HexDigitSet

\* s can be parsed as the kind field k declares
Parseable(k, s) == IF k \in DecKeys THEN IsDecimal(s) /\ FitsUint64(s) ELSE IsHex(s)

\* the error of the parser the field's text is handed to
ParseError(k, s) ==
  IF k \in DecKeys THEN ParseUint(s).err ELSE HexDecodeString(TrimPrefix0x(s)).err

\* the field's error is the invalid-value error around the parser's own error
InvalidValue(k, s) ==
  /\ err = [msg |-> "invalid value for " \o FieldName(k), cause |-> ParseError(k, s)]
  /\ err.cause # Nil
  /\ s = DNeg => err.cause = [lib |-> "strconv.ParseUint", arg |-> DNeg,
                              err |-> "invalid syntax"]
  /\ s = DOver => err.cause = [lib |-> "strconv.ParseUint", arg |-> DOver,
                               err |-> "value out of range"]
  /\ s = HInvalid => err.cause = [lib |-> "encoding/hex", err |-> "invalid byte",
                                  arg |-> "i"]

(***************************************************************************)
(* C9, as claimed: a field that is present but cannot be parsed as its     *)
(* declared kind makes decoding fail with "invalid value for <name of the  *)
(* field>: <cause>", the cause being the parser's own error.               *)
(***************************************************************************)
C9_PresentUnparseable ==
  TextDecoded =>
    \A k \in Range(Keys(shape)) \ {"body"} :
      (/\ HasKey(input, k)
       /\ IsScalar(ValueAt(input, k))
       /\ ~Parseable(k, ValueAt(input, k).s)
       /\ OthersValid(input, k))
        => InvalidValue(k, ValueAt(input, k).s)

(***************************************************************************)
(* C9, amended: a field that is present with a text that is not empty and  *)
(* cannot be parsed as its declared kind makes decoding fail with "invalid *)
(* value for <name of the field>: <cause>", the cause being the parser's   *)
(* own error; and no text with a field that cannot be parsed decodes       *)
(* without error.                                                          *)
(***************************************************************************)
C9_InvalidValue ==
  TextDecoded =>
    \A k \in Range(Keys(shape)) \ {"body"} :
      (/\ HasKey(input, k)
       /\ IsScalar(ValueAt(input, k))
       /\ ~Parseable(k, ValueAt(input, k).s))
        => /\ err # Nil
           /\ (ValueAt(input, k).s # <<>> /\ OthersValid(input, k))
                => InvalidValue(k, ValueAt(input, k).s)

\* a BeaconBlock text with the slot "-1" was refused with the parser's error
C9_Witness ==
  /\ shape = "BeaconBlock"
  /\ TextDecoded
  /\ HasKey(input, "slot")
  /\ ValueAt(input, "slot") = JStr(DNeg)
  /\ OthersValid(input, "slot")
  /\ err = [msg |-> "invalid value for slot",
            cause |-> [lib |-> "strconv.ParseUint", arg |-> DNeg,
                       err |-> "invalid syntax"]]

(***************************************************************************)
(* C10: for a value decoded from a canonical YAML text y (flow mapping on  *)
(* one line, string values in single quotes), MarshalYAML returns what     *)
(* String() returns, its output has no double quote, and it is y followed  *)
(* by one line break; the first two hold of every encoded value.           *)
(***************************************************************************)
NoDoubleQuote(t) == \A i \in 1..Len(t.members) : t.members[i].val.t # "double"

C10_CanonicalYAML ==
  (pc = "encoded" /\ via \in {"MarshalYAML", "yaml.Marshal"}) =>
    /\ rt = MethodMarshalYAML(shape, res)
    /\ rt = YamlMarshal(shape, res)
    /\ NoDoubleQuote(rt)
    /\ (input.kind = "flow" /\ CanonicalYAML(shape, input))
         => /\ rt.kind = "flow"
            /\ rt.members = input.members
            /\ rt.nl = input.nl + 1

\* MarshalYAML of the BeaconBlock decoded from a canonical text returned that
\* text and a line break
C10_Witness ==
  /\ shape = "BeaconBlock"
  /\ pc = "encoded"
  /\ via = "MarshalYAML"
  /\ input.kind = "flow"
  /\ CanonicalYAML(shape, input)
  /\ ValueAt(input, "parent_root") = YSingle(Hx(<<"a", "b">>, RootLength))
  /\ rt = [input EXCEPT !.nl = 1]

(***************************************************************************)
(* The defects of a BeaconBlock text, field by field                       *)
(***************************************************************************)
\* a text that reaches unpack: an object of the declared members, each at
\* most once, the string fields holding strings or null, the body a body or
\* null
ReachesUnpack(t) ==
  /\ IsText(t)
  /\ AllKeysDeclared(t)
  /\ \A i, k \in 1..Len(t.members) : t.members[i].key = t.members[k].key => i = k
  /\ \A i \in 1..Len(t.members) :
       IF t.members[i].key = "body"
         THEN \/ t.members[i].val.t = "null"
              \/ ValidMember("body", t.members[i].val)
         ELSE IsScalar(t.members[i].val) \/ t.members[i].val.t = "null"

\* the string the intermediate record holds for k: empty when k is absent or null
FieldText(t, k) ==
  IF HasKey(t, k) /\ IsScalar(ValueAt(t, k)) THEN ValueAt(t, k).s ELSE <<>>

\* the first check field k fails, or "none"
Defect(t, k) ==
  IF k = "body"
    THEN IF HasKey(t, k) /\ ValueAt(t, k).t = "object" THEN "none" ELSE "missing"
  ELSE IF FieldText(t, k) = <<>> THEN "missing"
  ELSE IF ~Parseable(k, FieldText(t, k)) THEN "parse"
  ELSE IF k \notin DecKeys /\ HexBytes(FieldText(t, k)) # SizeOf(k) THEN "length"
  ELSE "none"

\* the checks of a field, in the order claimed, and its assignment
Stages(k) ==
  IF k \in DecKeys THEN <<"missing", "parse", "assign">>
  ELSE IF k = "body" THEN <<"missing", "assign">>
  ELSE <<"missing", "parse", "length", "assign">>

\* what is done on field k when its first failing check is d
StepsOf(k, d) ==
  LET done == IF d = "none" THEN Stages(k)
              ELSE SubSeq(Stages(k), 1, IndexIn(d, Stages(k), 1))
  IN [i \in 1..Len(done) |-> k \o "." \o done[i]]

\* the first failing check of each field, in declared order
DefectsOf(t) ==
  [i \in 1..Len(Keys("BeaconBlock")) |-> Defect(t, Keys("BeaconBlock")[i])]

\* the place in declared order of the first defective field, 0 when none is
FirstDefect(ds) ==
  LET bad == {i \in 1..Len(ds) : ds[i] # "none"}
  IN IF bad = {} THEN 0 ELSE CHOOSE i \in bad : \A k \in bad : i <= k

\* the steps from field i on, stopping after the first defective field
RECURSIVE StepsFrom(_, _)
StepsFrom(ds, i) ==
  IF i > Len(ds) THEN <<>>
  ELSE IF ds[i] # "none" THEN StepsOf(Keys("BeaconBlock")[i], ds[i])
  ELSE StepsOf(Keys("BeaconBlock")[i], "none") \o StepsFrom(ds, i + 1)

\* the error of field k failing check d
ErrorOf(t, k, d) ==
  CASE d = "missing" -> [msg |-> FieldName(k) \o " missing", cause |-> Nil]
    [] d = "parse" -> [msg |-> "invalid value for " \o FieldName(k),
                       cause |-> ParseError(k, FieldText(t, k))]
    [] d = "length" -> [msg |-> LengthMessage(k, TRUE), cause |-> Nil]

(***************************************************************************)
(* C11: BeaconBlock.unpack checks the fields in declared order (slot,      *)
(* proposer_index, parent_root, state_root, body) and within a field       *)
(* checks missing, then parseable, then length; the error is that of the   *)
(* first defective field in declared order, and no later field is          *)
(* examined or assigned.                                                   *)
(***************************************************************************)
C11_FirstDefectInOrder ==
  [][(/\ shape = "BeaconBlock"
      /\ pc = "ready"
      /\ pc' = "decoded"
      /\ ReachesUnpack(input'))
     => LET ds == DefectsOf(input')
            d == FirstDefect(ds)
        IN /\ trace' = StepsFrom(ds, 1)
           /\ d = 0 => err' = Nil
           /\ d > 0 =>
                /\ err' = ErrorOf(input', Keys("BeaconBlock")[d], ds[d])
                /\ \A i \in (d + 1)..Len(ds) :
                     res'[beaconBlockJSONFields[i].field]
                       = res[beaconBlockJSONFields[i].field]]_vars

\* a text whose proposer index is "-1" and whose parent root is one byte short
\* was refused for the proposer index, the parent root not having been looked at
C11_Witness ==
  /\ shape = "BeaconBlock"
  /\ pc = "decoded"
  /\ ReachesUnpack(input)
  /\ Defect(input, "slot") = "none"
  /\ FieldText(input, "proposer_index") = DNeg
  /\ FieldText(input, "parent_root") = Hx(<<"a", "b">>, RootLength - 1)
  /\ err.msg = "invalid value for proposer index"
  /\ trace = <<"slot.missing", "slot.parse", "slot.assign",
               "proposer_index.missing", "proposer_index.parse">>

(***************************************************************************)
(* The same members written in the other notation                          *)
(***************************************************************************)
\* the YAML text of the members of a JSON object
AsYAML(t) == YFlow(YamlMembers(t.members, "canonical"), 0)

\* the JSON text of the members of a YAML mapping
AsJSON(y) ==
  JObject([i \in 1..Len(y.members) |->
             Member(y.members[i].key,
                    IF IsScalar(y.members[i].val) THEN JStr(y.members[i].val.s)
                    ELSE IF y.members[i].val.t = "null" THEN JNull
                    ELSE y.members[i].val)], FALSE)

\* the intermediate record json.Unmarshal fills from a JSON text
RecordOfJSON(t) ==
  JsonUnmarshalStruct(t, beaconBlockJSONFields, ZeroBeaconBlockJSON)

\* the intermediate record yaml.Unmarshal fills from a YAML text
RecordOfYAML(y) ==
  YamlUnmarshalStruct(y, beaconBlockJSONFields, ZeroBeaconBlockJSON)

\* both texts are read without error into the same intermediate record
SameRecord(t, y) ==
  /\ RecordOfJSON(t).err = Nil
  /\ RecordOfYAML(y) = RecordOfJSON(t)

(***************************************************************************)
(* C12: given the same intermediate record of field strings,               *)
(* UnmarshalJSON and UnmarshalYAML of BeaconBlock have the same outcome:   *)
(* the same decoded value in the receiver and the same field-level error.  *)
(***************************************************************************)
C12_SameOutcome ==
  [][(/\ shape = "BeaconBlock"
      /\ pc = "ready"
      /\ pc' = "decoded")
     => /\ (input'.kind = "object" /\ SameRecord(input', AsYAML(input')))
             => UnmarshalYAML(res, AsYAML(input')) = Step(res', err', trace')
        /\ (input'.kind = "flow" /\ SameRecord(AsJSON(input'), input'))
             => UnmarshalJSON(res, AsJSON(input')) = Step(res', err', trace')]_vars

\* a YAML text with a state root one byte long was refused, through the record
\* its JSON counterpart fills too
C12_Witness ==
  /\ shape = "BeaconBlock"
  /\ pc = "decoded"
  /\ via = "yaml.Unmarshal"
  /\ input.kind = "flow"
  /\ SameRecord(AsJSON(input), input)
  /\ RecordOfYAML(input).j.StateRoot = Hx(<<"a", "b">>, RootLength + 1)
  /\ err = [msg |-> "incorrect length for state root", cause |-> Nil]

(***************************************************************************)
(* C13: Service.BeaconBlockBlobs never returns a non-nil blob list with a  *)
(* non-nil error: when doCall, or the client whose answer doCall hands     *)
(* back, reports an error it returns (nil, that error); when the call      *)
(* succeeds with a nil result it returns (nil, nil); otherwise it returns  *)
(* exactly the list the client returned, with a nil error.                 *)
(***************************************************************************)
C13_BlobsOrError ==
  call.pc = "returned" =>
    /\ call.out.err # Nil => call.out.blobs = NilBlobs
    /\ call.doCall.err # Nil
         => call.out = [blobs |-> NilBlobs, err |-> call.doCall.err]
    /\ (call.doCall.err = Nil /\ call.doCall.res = NilInterface)
         => call.out = [blobs |-> NilBlobs, err |-> Nil]
    /\ (call.doCall.err = Nil /\ call.doCall.res # NilInterface)
         => call.out = [blobs |-> call.doCall.res.val, err |-> Nil]
    /\ call.doCall = call.inner =>
         /\ call.reply.err # Nil
              => call.out = [blobs |-> NilBlobs, err |-> call.reply.err]
         /\ call.reply.err = Nil
              => call.out = [blobs |-> call.reply.blobs, err |-> Nil]

\* doCall delivered a list of two sidecars beside an error, and the call
\* returned nil and that error
C13_Witness ==
  /\ call.pc = "returned"
  /\ call.doCall = [res |-> Boxed(BlobList(<<"sidecar0", "sidecar1">>)),
                    err |-> New("context canceled")]
  /\ call.out = [blobs |-> NilBlobs, err |-> New("context canceled")]

=============================================================================
